---- MODULE Spec2Model ----
(***************************************************************************)
(* Online/offline status checker (src/online-status-checker.js).           *)
(*                                                                         *)
(* The page runs on one event loop, so every action below is one task of   *)
(* that loop together with the promise continuations (microtasks) it       *)
(* triggers: a host call, a timer callback, an image event, a window       *)
(* online/offline event, or one step of initServiceWorker.                 *)
(*                                                                         *)
(* Status values of the code are written as strings:                       *)
(*   null -> "null", false -> "false", true -> "true", "online" -> "online" *)
(*                                                                         *)
(* Subscriber callbacks are host code: all the model knows of a call is    *)
(* that it may throw.  The order in which the overall TIMEOUT timer and    *)
(* the FETCH_TIMEOUT timer of one check fire is left open: the latter is   *)
(* set later with the smaller delay, and window timers are ordered only    *)
(* when the timer set earlier has the equal or smaller delay.  The moments *)
(* at which interval and cooldown timers fire are left open as well,       *)
(* except in OrderedSpec, which applies that ordering rule to them.  The   *)
(* interval that calls updateServiceWorker() touches none of the module's  *)
(* variables and is left out.                                              *)
(***************************************************************************)
EXTENDS Integers, Sequences, FiniteSets, TLC

\* ---------------------------------------------------------------- bounds
\* Callbacks the host application may pass to subscribe/unsubscribe.
Callbacks == {"cb1", "cb2"}
\* Number of checkOnlineStatus() calls whose image load is still pending.
MaxProbes == 1
\* Cap of consecutiveErrors (a probe is started only if every probe in
\* flight may still fail without passing the cap).
MaxErrors == 4
\* Timer ids available to setInterval (only id equality matters to the code,
\* so an id of a cleared interval may be handed out again).
MaxTimers == 2
\* Pending setTimeout(startPeriodicCheck) timers that are told apart.
MaxCooldowns == 2
\* Registered pairs of window online/offline listeners that are told apart;
\* the count saturates here.
MaxListeners == 2

\* ------------------------------------------------------ program constants
FETCH_TIMEOUT == 2000
TIMEOUT == 3000

\* (mutant) a check interval shorter than the load timeout
CHECK_INTERVAL_SHORT == FETCH_TIMEOUT \div 2

CHECK_INTERVAL == 5000
MAX_CONSECUTIVE_ERRORS == 3

\* ------------------------------------------------------------ status values
Null == "null"
False == "false"
True == "true"
Online == "online"

\* unsubscribeFromOnlineStatus() called without argument passes undefined.
Undefined == "undefined"

\* checkIntervalId before the first setInterval (undefined, falsy).
NoTimer == 0

\* A checkOnlineStatus() call whose promise is settled by the overall timeout
\* while its checkImageLoad() promise is still pending.
LateLoad == [kind |-> "late", cb |-> Undefined]
\* A pending checkOnlineStatus() call started by the interval callback.
TickProbe == [kind |-> "tick", cb |-> Undefined]
\* A pending checkOnlineStatus() call started by subscribeToOnlineStatus(cb).
SubProbe(cb) == [kind |-> "sub", cb |-> cb]

\* The kinds of checkOnlineStatus() calls in flight.
ProbeKinds == {LateLoad, TickProbe} \cup {SubProbe(cb) : cb \in Callbacks}

VARIABLES
  \* ---- program state
  pc,                 \* position of initServiceWorker
  subscribers,        \* the Set, as the sequence of its insertion order
  checkIntervalId,    \* id returned by the last setInterval, or NoTimer
  lastKnownStatus,
  consecutiveErrors,
  \* ---- runtime state
  navOnLine,          \* navigator.onLine
  intervals,          \* ids of the active setInterval timers
  cooldowns,          \* pending setTimeout(startPeriodicCheck, ...) timers
  listeners,          \* registered pairs of window online/offline listeners
  probes,             \* ProbeKinds -> number of such calls in flight
  \* ---- observation of the last task (history variables)
  op,                 \* name of the last task
  direct,             \* on-subscribe invocation it made, or NoCall
  \* ---- history variables, kept only when recording names their group:
  \* ---- "settle" for resolved and uncaught, "runs" for failRun, "views" for
  \* ---- view, "order" for older, "calls" for the others
  recording,          \* groups that are kept; fixed by the initial state
  applied,            \* status handed to notifySubscribers by it, or "none"
  fanouts,            \* number of fan-outs it made
  invoked,            \* callbacks its fan-out invoked
  removed,            \* callbacks unsubscribed and not subscribed again
  outcome,            \* outcome of the probe it finished, or "none"
  failRun,            \* length of the run of Failure outcomes ending now
  stoppedActive,      \* cleanup() was called while Running or Paused
  resolved,           \* value it resolved a checkOnlineStatus() promise with
  uncaught,           \* an exception left it (reported to the window)
  view,               \* status last passed to each callback, or "none"
  older               \* ProbeKinds -> number of the image loads pending that
                      \* were started before the scheduler's timer was set

vars == <<pc, subscribers, checkIntervalId, lastKnownStatus, consecutiveErrors,
          navOnLine, intervals, cooldowns, listeners, probes,
          op, direct, recording, applied, fanouts, invoked, removed,
          outcome, failRun, stoppedActive, resolved, uncaught, view, older>>

NoCall == [cb |-> Undefined, status |-> Null]

Min(a, b) == IF a < b THEN a ELSE b

Range(s) == {s[i] : i \in 1..Len(s)}

\* ------------------------------------------------------------ pure helpers
\* Set.prototype.add: appends unless present (insertion order is kept).
SetAdd(s, x) == IF x \in Range(s) THEN s ELSE Append(s, x)

\* Set.prototype.delete
SetDelete(s, x) == SelectSeq(s, LAMBDA y : y # x)

\* (mutant) unsubscribeFromOnlineStatus that leaves the Set as it is
unsubscribeKeeps(subs, callback) == subs

\* unsubscribeFromOnlineStatus(callback): subscribers.delete(callback)
unsubscribeFromOnlineStatus(subs, callback) == SetDelete(subs, callback)

\* subscribers.add(callback) of subscribeToOnlineStatus
subscribeAdd(subs, callback) == SetAdd(subs, callback)

\* (mutant) a stopPeriodicCheck that clears nothing
stopPeriodicCheckNoop(active, id) == active

\* stopPeriodicCheck(): clearInterval(checkIntervalId) when it is truthy
stopPeriodicCheck(active, id) == IF id # NoTimer THEN active \ {id} ELSE active

\* (mutant) notifySubscribers without the comparison to lastKnownStatus
notifySubscribersAlways(status, last) == [last |-> status, fanout |-> 1]

\* notifySubscribers(status): the strict comparison and the assignment;
\* fanout tells whether subscribers.forEach ran.
notifySubscribers(status, last) ==
  IF status # last
  THEN [last |-> status, fanout |-> 1]
  ELSE [last |-> last, fanout |-> 0]

\* (mutant) window listeners that each fan out a changed status
dispatchEventEach(n, status, last) ==
  [last |-> IF n > 0 THEN status ELSE last,
   fanout |-> IF status # last THEN n ELSE 0]

\* (mutant) window listeners that do nothing during the backoff pause
dispatchEventBackoff(n, status, last) ==
  IF cooldowns > 0 \/ n = 0
  THEN [last |-> last, fanout |-> 0]
  ELSE notifySubscribers(status, last)

\* n calls of notifySubscribers(status) in a row (one per window listener).
RECURSIVE dispatchEvent(_, _, _)
dispatchEvent(n, status, last) ==
  IF n = 0
  THEN [last |-> last, fanout |-> 0]
  ELSE LET first == notifySubscribers(status, last)
           rest == dispatchEvent(n - 1, status, first.last)
       IN [last |-> rest.last, fanout |-> first.fanout + rest.fanout]

\* (mutant) an interval callback without its try/catch
tickUnguarded(threw) == threw

\* try { ... notifySubscribers(status) } catch (error) { debugLog(...) } of the
\* interval callback: whether an exception thrown by a subscriber leaves it
tickEscapes(threw) == FALSE

\* () => notifySubscribers(...) of the window listeners: no try/catch
listenerEscapes(threw) == threw

\* the .then handler of checkImageLoad() in checkOnlineStatus
afterImageLoad(result, errors) == IF result THEN 0 ELSE errors + 1

\* the JavaScript booleans true and false, as status values
jsBool(b) == IF b THEN True ELSE False

\* the value checkImageLoad() resolves with, as a status
imageStatus(result) == jsBool(result)

RECURSIVE Sum(_, _)
Sum(f, S) == IF S = {} THEN 0 ELSE LET x == CHOOSE y \in S : TRUE IN f[x] + Sum(f, S \ {x})

\* number of image loads pending
InFlight == Sum(probes, ProbeKinds)
\* image loads that may be pending together: one more where the order of the
\* timers is tracked, so that two periodic checks have room to overlap
ProbeCap == IF "order" \in recording THEN MaxProbes + 1 ELSE MaxProbes
CanStartProbe == InFlight < ProbeCap /\ consecutiveErrors + InFlight < MaxErrors

FreeTimers == (1..MaxTimers) \ intervals
NewTimer == CHOOSE i \in FreeTimers : \A j \in FreeTimers : i <= j

\* ------------------------------------------------------- order of the timers
\* setTimeout / setInterval of one window: a timer does not run before a
\* timer that was set earlier with an equal or smaller delay
RunsFirst(earlier, later) == earlier <= later

\* the scheduler's timer (interval or cooldown, delay ms) may run: no image
\* load set up before it still has a timer that runs first.  A pending check
\* has its overall TIMEOUT timer and its FETCH_TIMEOUT timer, a check the
\* overall timer has resolved only the latter.
TimerReady(ms) ==
  ("order" \in recording)
    => \A p \in ProbeKinds :
         (older[p] > 0)
           => /\ ~RunsFirst(FETCH_TIMEOUT, ms)
              /\ (p # LateLoad) => ~RunsFirst(TIMEOUT, ms)

\* the scheduler's timer is set (setInterval, the re-arming of the interval
\* after its callback, setTimeout of the cooldown): the image loads that are
\* pending once the task has run were set up before it
Armed(pending) == older' = IF "order" \in recording THEN pending ELSE older

\* an image load of kind p ends, or (late) its check is resolved by the
\* overall timer and the load stays pending: it is one of the older loads of
\* that kind or one of the others
Aged(p, late) ==
  \E d \in {0, 1} :
    /\ d <= older[p]
    /\ 1 - d <= probes[p] - older[p]
    /\ older' = IF late
                THEN [older EXCEPT ![p] = @ - d, ![LateLoad] = @ + d]
                ELSE [older EXCEPT ![p] = @ - d]

\* --------------------------------------------- history variable bookkeeping
\* outcome of a finished probe: "Success", "Failure", "TimedOut", or "none"
Outcome(o) ==
  /\ UNCHANGED recording
  /\ outcome' = IF "calls" \in recording THEN o ELSE outcome
  /\ failRun' = CASE "runs" \notin recording \/ o = "none" -> failRun
                  [] o = "Failure" -> Min(failRun + 1, MAX_CONSECUTIVE_ERRORS)
                  [] OTHER -> 0

\* the callbacks unsubscribed and not subscribed again, after the task
Removed(now) == removed' = IF "calls" \in recording THEN now ELSE removed

\* the value a task resolved a checkOnlineStatus() promise with, or "none"
Resolved(status) ==
  resolved' = IF "settle" \in recording THEN status ELSE resolved

\* callback(status) was called for the callbacks in called
Seen(called, status) ==
  view' = IF "views" \in recording
          THEN [cb \in Callbacks |-> IF cb \in called THEN status ELSE view[cb]]
          ELSE view

\* a fan-out of status that invoked the first k subscribers; threw: one of
\* them threw
Delivered(k, threw, origin, status) ==
  /\ invoked' = IF "calls" \in recording
                THEN {subscribers[i] : i \in 1..k}
                ELSE invoked
  /\ Seen({subscribers[i] : i \in 1..k}, status)
  /\ uncaught' = IF "settle" \in recording
                 THEN IF origin = "tick"
                      THEN tickEscapes(threw)
                      ELSE listenerEscapes(threw)
                 ELSE uncaught

\* the numbers of subscribers a fan-out may reach before one of them throws
\* (told apart only where the callbacks invoked are recorded)
Prefixes ==
  IF recording \cap {"calls", "views"} # {}
  THEN 1..Len(subscribers)
  ELSE {Len(subscribers)}

\* whether a subscriber threw in a fan-out that reached k of them (told apart
\* only where the exception is recorded)
Throws(k) ==
  IF k < Len(subscribers) THEN {TRUE}
  ELSE IF "settle" \in recording THEN BOOLEAN ELSE {FALSE}

\* the task called notifySubscribers(status) n times, from the interval
\* callback (origin "tick") or from the window listeners (origin "event");
\* each fan-out stops at the first callback that throws (forEach is aborted by
\* the exception)
Notified(n, status, origin) ==
  LET r == dispatchEvent(n, status, lastKnownStatus) IN
  /\ lastKnownStatus' = r.last
  /\ IF "calls" \in recording
     THEN /\ applied' = IF n > 0 THEN status ELSE "none"
          /\ fanouts' = r.fanout
     ELSE UNCHANGED <<applied, fanouts>>
  /\ IF r.fanout > 0 /\ subscribers # <<>>
     THEN \E k \in Prefixes :
            \E threw \in Throws(k) : Delivered(k, threw, origin, status)
     ELSE Delivered(0, FALSE, origin, status)

\* the task did not call notifySubscribers
NoFanout ==
  /\ UNCHANGED lastKnownStatus
  /\ applied' = "none"
  /\ fanouts' = 0
  /\ invoked' = {}
  /\ uncaught' = FALSE

\* the task called neither notifySubscribers nor a callback
NotNotified == NoFanout /\ UNCHANGED view

\* ------------------------------------------------------------------- Init
\* the state once the module is loaded, before initServiceWorker() has got
\* anywhere
Loaded(rec) ==
  /\ recording = rec
  /\ pc = "register"
  /\ subscribers = <<>>
  /\ checkIntervalId = NoTimer
  /\ lastKnownStatus = Null
  /\ consecutiveErrors = 0
  /\ navOnLine \in BOOLEAN
  /\ intervals = {}
  /\ cooldowns = 0
  /\ listeners = 0
  /\ probes = [p \in ProbeKinds |-> 0]
  /\ op = "init"
  /\ applied = "none"
  /\ fanouts = 0
  /\ invoked = {}
  /\ direct = NoCall
  /\ removed = {}
  /\ outcome = "none"
  /\ failRun = 0
  /\ stoppedActive = FALSE
  /\ resolved = "none"
  /\ uncaught = FALSE
  /\ view = [cb \in Callbacks |-> "none"]
  /\ older = [p \in ProbeKinds |-> 0]

Init == Loaded({"calls"})


\* ------------------------------------------------- startPeriodicCheck body
\* setInterval(...), then one more pair of window listeners
startPeriodicCheck ==
  /\ intervals' = intervals \cup {NewTimer}
  /\ checkIntervalId' = NewTimer
  /\ listeners' = Min(listeners + 1, MaxListeners)

\* -------------------------------------------------------- initServiceWorker
\* navigator.serviceWorker.register(...) resolves
RegisterWorker ==
  /\ pc = "register"
  /\ pc' = "update"
  /\ op' = "RegisterWorker"
  /\ UNCHANGED older
  /\ direct' = NoCall
  /\ NotNotified /\ Outcome("none") /\ Resolved("none")
  /\ UNCHANGED <<subscribers, checkIntervalId, consecutiveErrors, navOnLine,
                 intervals, cooldowns, listeners, probes, removed, stoppedActive>>

\* registration.update() resolves; serviceWorker is taken from registration
UpdateWorker ==
  /\ pc = "update"
  /\ pc' = "activate"
  /\ op' = "UpdateWorker"
  /\ UNCHANGED older
  /\ direct' = NoCall
  /\ NotNotified /\ Outcome("none") /\ Resolved("none")
  /\ UNCHANGED <<subscribers, checkIntervalId, consecutiveErrors, navOnLine,
                 intervals, cooldowns, listeners, probes, removed, stoppedActive>>

\* the worker is (or becomes) "activated": startPeriodicCheck() is called
ActivateWorker ==
  /\ pc = "activate"
  /\ FreeTimers # {}
  /\ pc' = "started"
  /\ startPeriodicCheck
  /\ op' = "ActivateWorker"
  /\ Armed(probes)
  /\ direct' = NoCall
  /\ NotNotified /\ Outcome("none") /\ Resolved("none")
  /\ UNCHANGED <<subscribers, consecutiveErrors, navOnLine, cooldowns, probes,
                 removed, stoppedActive>>

\* (mutant) an initServiceWorker that falls back to probing when it fails
InitFailFallback ==
  /\ pc \in {"register", "update", "activate"}
  /\ FreeTimers # {}
  /\ pc' = "failed"
  /\ startPeriodicCheck
  /\ op' = "InitFail"
  /\ Armed(probes)
  /\ direct' = NoCall
  /\ NotNotified /\ Outcome("none") /\ Resolved("none")
  /\ UNCHANGED <<subscribers, consecutiveErrors, navOnLine, cooldowns, probes,
                 removed, stoppedActive>>

\* no service worker support, or register/update/activation wait throws:
\* initServiceWorker rejects and the module logs it
InitFail ==
  /\ pc \in {"register", "update", "activate"}
  /\ pc' = "failed"
  /\ op' = "InitFail"
  /\ UNCHANGED older
  /\ direct' = NoCall
  /\ NotNotified /\ Outcome("none") /\ Resolved("none")
  /\ UNCHANGED <<subscribers, checkIntervalId, consecutiveErrors, navOnLine,
                 intervals, cooldowns, listeners, probes, removed, stoppedActive>>

\* ------------------------------------------------------------ the scheduler
Running == intervals # {}
Paused == cooldowns > 0

\* interval callback, consecutiveErrors >= MAX_CONSECUTIVE_ERRORS:
\* stopPeriodicCheck(); setTimeout(startPeriodicCheck, CHECK_INTERVAL * 5)
TickPause(id) ==
  /\ id \in intervals
  /\ TimerReady(CHECK_INTERVAL)
  /\ consecutiveErrors >= MAX_CONSECUTIVE_ERRORS
  /\ cooldowns < MaxCooldowns
  /\ intervals' = stopPeriodicCheck(intervals, checkIntervalId)
  /\ cooldowns' = cooldowns + 1
  /\ op' = "TickPause"
  /\ Armed(probes)
  /\ direct' = NoCall
  /\ NotNotified /\ Outcome("none") /\ Resolved("none")
  /\ UNCHANGED <<pc, subscribers, checkIntervalId, consecutiveErrors, navOnLine,
                 listeners, probes, removed, stoppedActive>>

\* interval callback, navigator.onLine false: checkOnlineStatus() resolves
\* false at once and the callback goes on to notifySubscribers(false)
TickOffline(id) ==
  /\ id \in intervals
  /\ TimerReady(CHECK_INTERVAL)
  /\ consecutiveErrors < MAX_CONSECUTIVE_ERRORS
  /\ ~navOnLine
  /\ Notified(1, False, "tick")
  /\ Outcome("Failure")
  /\ Resolved(False)
  /\ op' = "TickOffline"
  /\ Armed(probes)
  /\ direct' = NoCall
  /\ UNCHANGED <<pc, subscribers, checkIntervalId, consecutiveErrors, navOnLine,
                 intervals, cooldowns, listeners, probes, removed, stoppedActive>>

\* interval callback, navigator.onLine true: checkOnlineStatus() sets the
\* overall timer and starts checkImageLoad(); the callback awaits
TickProbeStart(id) ==
  /\ id \in intervals
  /\ TimerReady(CHECK_INTERVAL)
  /\ consecutiveErrors < MAX_CONSECUTIVE_ERRORS
  /\ navOnLine
  /\ CanStartProbe
  /\ probes' = [probes EXCEPT ![TickProbe] = @ + 1]
  /\ op' = "TickProbeStart"
  /\ Armed(probes')
  /\ direct' = NoCall
  /\ NotNotified /\ Outcome("none") /\ Resolved("none")
  /\ UNCHANGED <<pc, subscribers, checkIntervalId, consecutiveErrors, navOnLine,
                 intervals, cooldowns, listeners, removed, stoppedActive>>

\* the cooldown timer fires: startPeriodicCheck()
CooldownFire ==
  /\ cooldowns > 0
  /\ TimerReady(CHECK_INTERVAL * 5)
  /\ FreeTimers # {}
  /\ cooldowns' = cooldowns - 1
  /\ startPeriodicCheck
  /\ op' = "CooldownFire"
  /\ Armed(probes)
  /\ direct' = NoCall
  /\ NotNotified /\ Outcome("none") /\ Resolved("none")
  /\ UNCHANGED <<pc, subscribers, consecutiveErrors, navOnLine, probes,
                 removed, stoppedActive>>

\* ------------------------------------------------- settling a probe in flight
\* (mutant) the on-subscribe invocation passes the cached lastKnownStatus
SettledCached(p, status) ==
  IF p.kind = "tick"
  THEN /\ Notified(1, status, "tick")
       /\ direct' = NoCall
       /\ Resolved(status)
  ELSE /\ NoFanout
       /\ direct' = [cb |-> p.cb, status |-> lastKnownStatus]
       /\ Seen({p.cb}, lastKnownStatus)
       /\ Resolved(status)

\* (mutant) an interval callback that drops the result of its check when
\* navigator.onLine has become false in the meantime
SettledFresh(p, status) ==
  IF p.kind = "tick"
  THEN /\ IF navOnLine THEN Notified(1, status, "tick") ELSE NotNotified
       /\ direct' = NoCall
       /\ Resolved(status)
  ELSE /\ NoFanout
       /\ direct' = [cb |-> p.cb, status |-> status]
       /\ Seen({p.cb}, status)
       /\ Resolved(status)

\* what the awaiting caller of checkOnlineStatus() does with the status:
\* the interval callback notifies, subscribeToOnlineStatus calls the callback
Settled(p, status) ==
  IF p.kind = "tick"
  THEN /\ Notified(1, status, "tick")
       /\ direct' = NoCall
       /\ Resolved(status)
  ELSE /\ NoFanout
       /\ direct' = [cb |-> p.cb, status |-> status]
       /\ Seen({p.cb}, status)
       /\ Resolved(status)

\* checkImageLoad() resolves with result (img.onload: TRUE; img.onerror or the
\* FETCH_TIMEOUT timer: FALSE); the .then handler updates consecutiveErrors and
\* resolves the check unless the overall timeout already did
ImageDone(p, result, name) ==
  /\ probes[p] > 0
  /\ consecutiveErrors' = afterImageLoad(result, consecutiveErrors)
  /\ probes' = [probes EXCEPT ![p] = @ - 1]
  /\ op' = name
  /\ Aged(p, FALSE)
  /\ IF p = LateLoad
     THEN /\ NotNotified
          /\ direct' = NoCall
          /\ Outcome("none")
          /\ Resolved("none")
     ELSE /\ Settled(p, imageStatus(result))
          /\ Outcome(IF result THEN "Success" ELSE "Failure")
  /\ UNCHANGED <<pc, subscribers, checkIntervalId, navOnLine, intervals,
                 cooldowns, listeners, removed, stoppedActive>>

ImageLoad(p) == ImageDone(p, TRUE, "ImageLoad")
ImageError(p) == ImageDone(p, FALSE, "ImageError")
ImageTimeout(p) == ImageDone(p, FALSE, "ImageTimeout")

\* the overall TIMEOUT timer fires first: resolve("online"); the image load
\* stays pending
OverallTimeout(p) ==
  /\ p # LateLoad
  /\ probes[p] > 0
  /\ probes' = [probes EXCEPT ![p] = @ - 1, ![LateLoad] = @ + 1]
  /\ op' = "OverallTimeout"
  /\ Aged(p, TRUE)
  /\ Settled(p, Online)
  /\ Outcome("TimedOut")
  /\ UNCHANGED <<pc, subscribers, checkIntervalId, consecutiveErrors, navOnLine,
                 intervals, cooldowns, listeners, removed, stoppedActive>>


\* ------------------------------------------------------------ the public API
\* subscribeToOnlineStatus(callback), navigator.onLine false: the check
\* resolves false at once and callback(false) runs in the same task
SubscribeOffline(cb) ==
  /\ ~navOnLine
  /\ subscribers' = subscribeAdd(subscribers, cb)
  /\ Removed(removed \ {cb})
  /\ Settled(SubProbe(cb), False)
  /\ op' = "SubscribeOffline"
  /\ UNCHANGED older
  /\ Outcome("Failure")
  /\ UNCHANGED <<pc, checkIntervalId, consecutiveErrors, navOnLine, intervals,
                 cooldowns, listeners, probes, stoppedActive>>

\* subscribeToOnlineStatus(callback), navigator.onLine true: the check is
\* left in flight with callback as its continuation
SubscribeProbeStart(cb) ==
  /\ navOnLine
  /\ CanStartProbe
  /\ subscribers' = subscribeAdd(subscribers, cb)
  /\ Removed(removed \ {cb})
  /\ probes' = [probes EXCEPT ![SubProbe(cb)] = @ + 1]
  /\ direct' = NoCall
  /\ op' = "SubscribeProbeStart"
  /\ UNCHANGED older
  /\ NotNotified /\ Outcome("none") /\ Resolved("none")
  /\ UNCHANGED <<pc, checkIntervalId, consecutiveErrors, navOnLine, intervals,
                 cooldowns, listeners, stoppedActive>>

\* unsubscribeFromOnlineStatus(callback)
Unsubscribe(cb) ==
  /\ subscribers' = unsubscribeFromOnlineStatus(subscribers, cb)
  /\ Removed(removed \cup {cb})
  /\ direct' = NoCall
  /\ op' = "Unsubscribe"
  /\ UNCHANGED older
  /\ NotNotified /\ Outcome("none") /\ Resolved("none")
  /\ UNCHANGED <<pc, checkIntervalId, consecutiveErrors, navOnLine, intervals,
                 cooldowns, listeners, probes, stoppedActive>>

\* cleanup(): stopPeriodicCheck(); unsubscribeFromOnlineStatus()
Cleanup ==
  /\ intervals' = stopPeriodicCheck(intervals, checkIntervalId)
  /\ subscribers' = unsubscribeFromOnlineStatus(subscribers, Undefined)
  /\ stoppedActive' = (stoppedActive \/ ("calls" \in recording /\ (Running \/ Paused)))
  /\ direct' = NoCall
  /\ op' = "Cleanup"
  /\ UNCHANGED older
  /\ NotNotified /\ Outcome("none") /\ Resolved("none")
  /\ UNCHANGED <<pc, checkIntervalId, consecutiveErrors, navOnLine, cooldowns,
                 listeners, probes, removed>>

\* -------------------------------------------------------- platform events
\* (mutant) window listeners whose online event also resets consecutiveErrors
PlatformEventResets(online, name) ==
  /\ navOnLine # online
  /\ navOnLine' = online
  /\ Notified(listeners, jsBool(online), "event")
  /\ consecutiveErrors' = IF online THEN 0 ELSE consecutiveErrors
  /\ direct' = NoCall
  /\ op' = name
  /\ UNCHANGED older
  /\ Outcome("none")
  /\ Resolved("none")
  /\ UNCHANGED <<pc, subscribers, checkIntervalId, intervals,
                 cooldowns, listeners, probes, removed, stoppedActive>>

\* navigator.onLine changes and the window event is dispatched to every
\* listener startPeriodicCheck has registered: notifySubscribers(true / false)
PlatformEvent(online, name) ==
  /\ navOnLine # online
  /\ navOnLine' = online
  /\ Notified(listeners, jsBool(online), "event")
  /\ direct' = NoCall
  /\ op' = name
  /\ UNCHANGED older
  /\ Outcome("none")
  /\ Resolved("none")
  /\ UNCHANGED <<pc, subscribers, checkIntervalId, consecutiveErrors, intervals,
                 cooldowns, listeners, probes, removed, stoppedActive>>

PlatformOnline == PlatformEvent(TRUE, "PlatformOnline")
PlatformOffline == PlatformEvent(FALSE, "PlatformOffline")

\* ------------------------------------------------------------------- Next
Tick == \E id \in 1..MaxTimers : TickPause(id) \/ TickOffline(id) \/ TickProbeStart(id)

ProbeStep == \E p \in ProbeKinds : ImageLoad(p) \/ ImageError(p) \/ ImageTimeout(p) \/ OverallTimeout(p)

Host == \E cb \in Callbacks : SubscribeOffline(cb) \/ SubscribeProbeStart(cb) \/ Unsubscribe(cb)

Next ==
  \/ RegisterWorker
  \/ UpdateWorker
  \/ ActivateWorker
  \/ InitFail
  \/ Tick
  \/ CooldownFire
  \/ ProbeStep
  \/ Host
  \/ Cleanup
  \/ PlatformOnline
  \/ PlatformOffline

Spec == Init /\ [][Next]_vars


\* Timers that are set do fire: the interval while it is active, the cooldown
\* timer, and the FETCH_TIMEOUT timer of every pending image load.  Host calls,
\* platform events, image events and the service worker are not obliged to
\* happen.
ProbeFairness == \A p \in ProbeKinds : WF_vars(ImageTimeout(p))

Fairness ==
  /\ WF_vars(Tick)
  /\ WF_vars(CooldownFire)
  /\ ProbeFairness

FairSpec == Spec /\ Fairness

\* The same program with only op and direct recorded, under the fairness of
\* the FETCH_TIMEOUT timers alone.
PlainInit == Loaded({})
PlainFairSpec == PlainInit /\ [][Next]_vars /\ ProbeFairness

\* The same program with op, direct, the resolved value and the escaping
\* exception recorded, under the fairness of the FETCH_TIMEOUT timers of the
\* checks whose promise is pending.
CallFairness == \A p \in ProbeKinds \ {LateLoad} : WF_vars(ImageTimeout(p))
SettleInit == Loaded({"settle"})
SettleFairSpec == SettleInit /\ [][Next]_vars /\ CallFairness

\* The same program with op, direct and the status last passed to each
\* callback recorded.
ViewsInit == Loaded({"views"})
ViewsSpec == ViewsInit /\ [][Next]_vars

\* The same program with op and direct recorded and the order of the timers
\* tracked: the interval and the cooldown timer wait for the timers that
\* RunsFirst puts before them.
OrderedInit == Loaded({"order"})
OrderedSpec == OrderedInit /\ [][Next]_vars

\* The same program with op, direct and the run of Failure outcomes recorded.
RunsInit == Loaded({"runs"})
RunsSpec == RunsInit /\ [][Next]_vars

\* ================================================================== claims
TickOps == {"TickPause", "TickOffline", "TickProbeStart"}
SubscribeOps == {"SubscribeOffline", "SubscribeProbeStart"}
Truthy(status) == status \in {True, Online}
Idle == ~Running /\ ~Paused

\* C1: after cleanup() returns the subscriber set is empty.
C1_CleanupClearsSubscribers == (op = "Cleanup") => (subscribers = <<>>)

\* C2: once cleanup() was called with the scheduler Running or Paused, no
\* interval timer and no cooldown timer is left, so the scheduler stays Idle.
C2_CleanupStopsScheduler == stoppedActive => Idle

\* C3: whenever the scheduler is Paused, a scheduled probe is eventually
\* executed again (unless cleanup() was called on the active scheduler).
C3_PauseResumesProbing ==
  [](Paused => <>(op \in {"TickProbeStart", "TickOffline"} \/ stoppedActive))

\* C4: when the last MAX_CONSECUTIVE_ERRORS probe outcomes are all Failure, the
\* next interval tick starts no probe, clears the interval and schedules
\* exactly one resumption.
C4_ThreeFailuresPause ==
  [][(failRun = MAX_CONSECUTIVE_ERRORS /\ op' \in TickOps)
       => /\ op' = "TickPause"
          /\ probes' = probes
          /\ checkIntervalId \notin intervals'
          /\ cooldowns' = cooldowns + 1]_vars

\* C5: consecutiveErrors counts the Failure outcomes since the last Success
\* outcome: it starts at 0, a task that ends a probe with Failure adds one, one
\* that ends a probe with Success sets it to 0, and every other task (a probe
\* timing out included) leaves it alone.
C5_ErrorsCountTrailingFailures ==
  [][consecutiveErrors' = CASE outcome' = "Failure" -> consecutiveErrors + 1
                            [] outcome' = "Success" -> 0
                            [] OTHER -> consecutiveErrors]_vars

\* C6: a fan-out invokes every currently subscribed callback, also when one of
\* them throws.
C6_FanoutReachesAll == (fanouts > 0) => (invoked = Range(subscribers))

\* C7: a task that derives a status (periodic probe result or platform event)
\* fans out iff that status differs from lastKnownStatus, and lastKnownStatus
\* then is that status, so that repeating the outcome does not notify again.
C7_FanoutIffChanged ==
  [][(applied' # "none")
       => /\ (fanouts' > 0) <=> (applied' # lastKnownStatus)
          /\ lastKnownStatus' = applied']_vars

\* C7 witness: a repeated Offline outcome of a periodic check was suppressed.
C7_Witness ==
  op = "TickOffline" /\ applied = False /\ fanouts = 0 /\ subscribers # <<>>

\* C8: a derived status that is online (true or "online") while
\* lastKnownStatus is online (true or "online") produces no fan-out: no
\* subscriber is invoked.
C8_OnlineVariantsNoFanout ==
  [][(applied' # "none" /\ Truthy(applied') /\ Truthy(lastKnownStatus))
       => invoked' = {}]_vars


\* number of subscribeToOnlineStatus(cb) calls whose check is not settled
Unsettled(cb) == probes[SubProbe(cb)]
\* number of on-subscribe invocations of cb made by the last task
Called(call, cb) == IF call.cb = cb THEN 1 ELSE 0
\* the status the probe ended by the task named o resolves with
ResultOf(o) ==
  CASE o = "ImageLoad" -> True
    [] o = "OverallTimeout" -> Online
    [] OTHER -> False

\* C9: every subscribeToOnlineStatus(cb) call is answered by exactly one
\* invocation of cb outside the fan-out: a task invokes cb that way only when
\* it settles a check started by such a call (or is the call itself, settled
\* at once), every such call adds one check to settle, the status passed is the
\* result of that check, and a check left in flight is settled eventually.
C9_SubscribeInvokesOnce ==
  /\ [][\A cb \in Callbacks :
          /\ Unsettled(cb)' + Called(direct', cb) - Unsettled(cb) \in {0, 1}
          /\ (Unsettled(cb)' + Called(direct', cb) - Unsettled(cb) = 1)
               => (op' \in SubscribeOps)
          /\ (op' \in SubscribeOps)
               => (\E c \in Callbacks :
                     Unsettled(c)' + Called(direct', c) = Unsettled(c) + 1)
          /\ (Called(direct', cb) = 1) => (direct'.status = ResultOf(op'))]_vars
  /\ \A cb \in Callbacks : (Unsettled(cb) > 0) ~> (direct.cb = cb)

\* C9 witness: a callback that was already subscribed is invoked on a second
\* subscribe call with a fresh result that differs from lastKnownStatus.
C9_Witness ==
  /\ op = "ImageLoad"
  /\ direct.cb \in Callbacks
  /\ direct.status = True
  /\ lastKnownStatus = False
  /\ Len(subscribers) = Cardinality(Callbacks)

\* C10: a fan-out never invokes a callback that was unsubscribed and not
\* subscribed again.
C10_RemovedNotNotified == (fanouts > 0) => (invoked \cap removed = {})

\* C10 witness: a status change fans out to the remaining subscriber after
\* another callback was unsubscribed.
C10_Witness == fanouts > 0 /\ invoked # {} /\ removed # {}

\* the values a checkOnlineStatus() promise may resolve with
StatusValues == {False, True, Online}
\* the tasks that end a checkOnlineStatus() call whatever the call
EndsCall == {"TickOffline", "SubscribeOffline", "OverallTimeout"}
PlatformOps == {"PlatformOnline", "PlatformOffline"}

\* C11: every checkOnlineStatus() call resolves with false, true or "online":
\* a task that ends a call (one settled at once included) resolves it with the
\* value of the path taken, whatever navigator.onLine, the image outcome and
\* the order of the timers; no exception leaves the interval callback or its
\* continuation (only a window listener lets one through); and a call left
\* pending is resolved eventually.
C11_CheckAlwaysResolves ==
  /\ [](/\ resolved \in StatusValues \cup {"none"}
        /\ (op \in EndsCall) => (resolved \in StatusValues)
        /\ (resolved # "none") => (resolved = ResultOf(op))
        /\ uncaught => (op \in PlatformOps))
  /\ \A p \in ProbeKinds \ {LateLoad} :
       (probes[p] > 0)
         ~> (resolved # "none" /\ direct.cb = p.cb /\ op # "TickOffline")

\* C11 witness: a periodic check ended by the overall timeout, with a
\* subscriber to notify.
C11_Witness ==
  /\ op = "OverallTimeout"
  /\ resolved = Online
  /\ direct = NoCall
  /\ subscribers # <<>>
  /\ lastKnownStatus = Online

\* the tasks that start a probe
StartOps == {"TickProbeStart", "SubscribeProbeStart"}

\* C12: a probe that ends by the overall timeout leaves consecutiveErrors as
\* it was: neither the task that starts a probe, nor the one in which the
\* overall timer resolves it "online", nor the later completion of its image
\* load changes consecutiveErrors.
C12_TimeoutLeavesErrors ==
  [][(\/ op' \in StartOps
      \/ op' = "OverallTimeout"
      \/ probes'[LateLoad] < probes[LateLoad])
       => consecutiveErrors' = consecutiveErrors]_vars

\* C13: a window offline / online event delivered while the scheduler is
\* Running or Paused sets lastKnownStatus to false / true in that very task and
\* fans out when that changes lastKnownStatus (to at least one subscriber when
\* there is one); the pause does not delay or suppress it.
C13_PlatformEventApplied ==
  [][(op' \in PlatformOps /\ (Running \/ Paused))
       => /\ applied' = jsBool(op' = "PlatformOnline")
          /\ lastKnownStatus' = applied'
          /\ (lastKnownStatus # applied') => (fanouts' > 0)
          /\ (lastKnownStatus # applied' /\ subscribers # <<>>)
               => (invoked' # {})]_vars

\* C13 witness: an offline event during the backoff pause was fanned out.
C13_Witness ==
  /\ op = "PlatformOffline"
  /\ Paused
  /\ lastKnownStatus = False
  /\ fanouts > 0
  /\ invoked # {}

\* C14: a window online / offline event leaves consecutiveErrors and the
\* timers of the scheduler as they are: an online event received while
\* consecutiveErrors >= MAX_CONSECUTIVE_ERRORS does not lift the backoff.
C14_PlatformEventKeepsErrors ==
  [][(op' \in PlatformOps)
       => /\ consecutiveErrors' = consecutiveErrors
          /\ intervals' = intervals
          /\ cooldowns' = cooldowns]_vars

\* C14 witness: an online event arrived during the backoff pause.
C14_Witness ==
  /\ op = "PlatformOnline"
  /\ applied = True
  /\ Paused
  /\ consecutiveErrors >= MAX_CONSECUTIVE_ERRORS

\* C15: when a periodic check started while navigator.onLine was true ends
\* with a loaded image after an offline event (navigator.onLine is false by
\* then), its result is still applied: notifySubscribers(true) is called,
\* lastKnownStatus ends as true, and the subscribers, told false by the event,
\* are told true.
C15_LateSuccessApplied ==
  [][(op' = "ImageLoad" /\ probes'[TickProbe] < probes[TickProbe] /\ ~navOnLine)
       => /\ applied' = True
          /\ lastKnownStatus' = True
          /\ (lastKnownStatus = False) => (fanouts' > 0)
          /\ (lastKnownStatus = False /\ subscribers # <<>>)
               => (invoked' # {})]_vars

\* C15 witness: a periodic check ended with a loaded image while
\* navigator.onLine was false, and true was fanned out to a subscriber.
C15_Witness ==
  /\ op = "ImageLoad"
  /\ direct = NoCall
  /\ ~navOnLine
  /\ applied = True
  /\ lastKnownStatus = True
  /\ fanouts > 0
  /\ invoked # {}

\* the order in which initServiceWorker proceeds
InitSteps ==
  {<<"register", "update">>, <<"update", "activate">>, <<"activate", "started">>}
  \cup {<<at, "failed">> : at \in {"register", "update", "activate"}}

\* C16: startPeriodicCheck() runs only once the worker is registered, updated
\* and activated, in that order; until then, and for ever when initialisation
\* fails or never gets there, there is no interval timer, cooldown timer or
\* window listener, and no periodic tick or periodic check.
C16_StartAfterActivation ==
  [][/\ (pc' # pc) => (<<pc, pc'>> \in InitSteps)
     /\ (pc' = "started" /\ pc # "started") => (op' = "ActivateWorker")
     /\ (pc' # "started")
          => /\ Idle'
             /\ listeners' = 0
             /\ checkIntervalId' = NoTimer
             /\ probes'[TickProbe] = 0
             /\ op' \notin TickOps]_vars

\* C16 witness: a periodic check was started after the activation.
C16_Witness ==
  /\ pc = "started"
  /\ op = "TickProbeStart"
  /\ probes[TickProbe] > 0

\* C18: at most one interval timer is active, and an active interval timer and
\* a pending cooldown timer never exist together.
C18_OneSchedulerTimer ==
  /\ Cardinality(intervals) <= 1
  /\ ~(Running /\ Paused)

\* C18 witness: the scheduler was resumed by the cooldown timer after
\* cleanup() had been called on it.
C18_Witness ==
  /\ op = "CooldownFire"
  /\ stoppedActive
  /\ Cardinality(intervals) = 1
  /\ checkIntervalId \in intervals

\* the tasks that call startPeriodicCheck()
StartSchedulerOps == {"ActivateWorker", "CooldownFire"}

\* C19: every start or resumption of the scheduler registers one more pair of
\* window listeners (counted up to MaxListeners) and no task removes one; yet
\* one window online / offline event makes at most one fan-out, so that each
\* subscriber is invoked at most once for it.
C19_OneFanoutPerEvent ==
  [][/\ listeners' >= listeners
     /\ (op' \in StartSchedulerOps)
          => (listeners' = Min(listeners + 1, MaxListeners))
     /\ (op' \in PlatformOps) => (fanouts' <= 1)]_vars

\* C19 witness: after a pause and a resumption two pairs of listeners are
\* registered, and an event was fanned out once.
C19_Witness ==
  /\ op \in PlatformOps
  /\ listeners >= 2
  /\ fanouts = 1
  /\ invoked # {}

\* checkOnlineStatus() calls whose promise is pending
Pending == probes[TickProbe] + Sum(probes, {SubProbe(cb) : cb \in Callbacks})

\* C20: whenever no check is pending and lastKnownStatus is not null, the
\* status last passed to every subscribed callback (by its on-subscribe
\* invocation or by a fan-out) is lastKnownStatus.
C20_ViewMatchesStatus ==
  (Pending = 0 /\ lastKnownStatus # Null)
    => (\A cb \in Range(subscribers) : view[cb] = lastKnownStatus)

\* C17: with the interval of CHECK_INTERVAL ms re-armed after each callback
\* and the checks bounded by TIMEOUT and FETCH_TIMEOUT, no two checks started
\* by the interval callback are pending together, whether the scheduler is
\* Running, Paused or resumed.
C17_TickChecksSingleFlight == probes[TickProbe] <= 1

\* C17 witness: after a pause and a resumption a tick started its check while
\* the check of a subscribeToOnlineStatus call was pending.
C17_Witness ==
  /\ op = "TickProbeStart"
  /\ probes[TickProbe] = 1
  /\ InFlight = 2
  /\ listeners >= 2

====
